---- MODULE Spec2Model ----
(***************************************************************************)
(* Session Manager of the Dify mobile client (src/utils/auth.js): the      *)
(* static Auth class, the AsyncStorage Credential Store behind it and the  *)
(* refresh endpoint it talks to.  Every async method of Auth is one        *)
(* action: the method runs from its call to the settlement of its promise, *)
(* with the outcome of each store write, store removal and HTTP request    *)
(* chosen by the environment.  Store reads (getItem) are taken to succeed. *)
(***************************************************************************)
EXTENDS Integers, Sequences, FiniteSets, TLC

\* ------------------------------------------------------------------------
\* Bounds of the model
\* ------------------------------------------------------------------------
\* Date.now() runs over 1000, 2000, ..., MaxNow * 1000 (milliseconds).
MaxNow == 2

\* ------------------------------------------------------------------------
\* Constants of the program
\* ------------------------------------------------------------------------
AUTH_TOKEN == "auth_token"
REFRESH_TOKEN == "refresh_token"
INSTANCE_URL == "instance_url"
INSTANCE_TYPE == "instance_type"
API_PREFIX == "api_prefix"
PUBLIC_API_PREFIX == "public_api_prefix"
COOKIES == "auth_cookies"
BASE_URL == "base_url"
APPS == "apps"
IS_AUTHENTICATED == "isAuthenticated"

STORAGE_KEYS ==
  {AUTH_TOKEN, REFRESH_TOKEN, INSTANCE_URL, INSTANCE_TYPE, API_PREFIX,
   PUBLIC_API_PREFIX, COOKIES, BASE_URL}

\* Every key the program keeps in the Credential Store.
StoreKeys == STORAGE_KEYS \cup {APPS, IS_AUTHENTICATED}

CLOUD == "cloud"
CUSTOM == "custom"
INSTANCE_TYPES == {CLOUD, CUSTOM}

CLOUD_INSTANCE_URL == "https://cloud.dify.ai"

\* The key list logout() hands to AsyncStorage.multiRemove, in its order.
LOGOUT_KEYS ==
  <<AUTH_TOKEN, REFRESH_TOKEN, INSTANCE_URL, INSTANCE_TYPE, API_PREFIX,
    PUBLIC_API_PREFIX, COOKIES, BASE_URL, APPS, IS_AUTHENTICATED>>

\* ------------------------------------------------------------------------
\* JavaScript values
\* ------------------------------------------------------------------------
\* AsyncStorage.getItem's null for an absent key, and an omitted argument.
NULL == "<null>"
UNDEFINED == "<undefined>"

\* A test against the empty string only: null and undefined pass it.
TruthyUnlessEmpty(v) == v # ""

\* JavaScript truthiness of a string-or-null value (!!v).
Truthy(v) == v # NULL /\ v # UNDEFINED /\ v # ""

\* a || b written without its right-hand side: the default is forgotten.
OrElseFirst(a, b) == a

\* a || b
OrElse(a, b) == IF Truthy(a) THEN a ELSE b

BoolStr(b) == IF b THEN "true" ELSE "false"

\* The values stored under key apps: an array of app records, each with its
\* id, or an object whose data field holds such an array.
List(ids) == [wrapped |-> FALSE, ids |-> ids]
Wrapper(ids) == [wrapped |-> TRUE, ids |-> ids]

\* ------------------------------------------------------------------------
\* Value domains the environment draws from
\* ------------------------------------------------------------------------
\* Access tokens: two JWTs whose payload carries exp = 1 and exp = 2
\* (seconds), and one string that is no JWT at all.
Tokens == {"h.exp1.s", "h.exp2.s", "opaque"}
RefreshTokens == {"r1", "r2"}
CookieStrings == {"sid=1"}
Prefixes == {"https://x/api", "https://y/api"}
BaseUrls == {"https://self.example"}

\* token.split('.')
Split(token) ==
  CASE token = "h.exp1.s" -> <<"h", "exp1", "s">>
    [] token = "h.exp2.s" -> <<"h", "exp2", "s">>
    [] OTHER -> <<token>>

\* JSON.parse(atob(segment)): the decoded payload, or a thrown error when the
\* segment is missing (split('.')[1] undefined) or is not base64 JSON.
ParsePayload(segments) ==
  IF Len(segments) < 2 THEN [threw |-> TRUE, exp |-> 0]
  ELSE CASE segments[2] = "exp1" -> [threw |-> FALSE, exp |-> 1]
         [] segments[2] = "exp2" -> [threw |-> FALSE, exp |-> 2]
         [] OTHER -> [threw |-> TRUE, exp |-> 0]

\* ------------------------------------------------------------------------
\* State
\* ------------------------------------------------------------------------
VARIABLES
  store,            \* Credential Store: key -> string, or NULL when absent
  isAuthenticated,  \* Auth.isAuthenticated
  instanceUrl,      \* Auth.instanceUrl
  instanceType,     \* Auth.instanceType
  apiPrefix,        \* Auth.apiPrefix
  publicApiPrefix,  \* Auth.publicApiPrefix
  cookies,          \* Auth.cookies
  baseUrl,          \* Auth.baseUrl
  now,              \* Date.now()
  last,             \* the call that ended last: its inputs and its outcome
  loginProcessed,   \* LoginScreen: loginProcessed.current
  showWebView,      \* LoginScreen: showWebView
  webViewUrl,       \* LoginScreen: webViewUrl
  navs,             \* the suspended calls of handleWebViewNavigation
  observed,         \* what the login flow has done so far
  mounted,          \* AppNavigator is mounted
  navigator,        \* AppNavigator: isLoading, isAuthenticated
  checks,           \* the suspended Auth.checkAuthState() calls of AppNavigator
  polled,           \* what the navigator's checks have done so far
  conversations,    \* useConversationStore: conversations
  remote,           \* the conversations the server holds for this device
  requests,         \* the suspended requests of WelcomeScreen
  apps,             \* the apps state of the screen that manages saved apps
  calls             \* the suspended overlapping calls of Auth methods

screenVars == <<loginProcessed, showWebView, webViewUrl, navs, observed>>

navigatorVars == <<mounted, navigator, checks, polled>>

dataVars == <<conversations, remote, requests, apps, calls>>

uiVars == <<screenVars, navigatorVars, dataVars>>

vars ==
  <<store, isAuthenticated, instanceUrl, instanceType, apiPrefix,
    publicApiPrefix, cookies, baseUrl, now, last, screenVars, navigatorVars,
    dataVars>>

\* The Auth class and the store behind it, as one value the methods transform.
Auth ==
  [store |-> store,
   isAuthenticated |-> isAuthenticated,
   instanceUrl |-> instanceUrl,
   instanceType |-> instanceType,
   apiPrefix |-> apiPrefix,
   publicApiPrefix |-> publicApiPrefix,
   cookies |-> cookies,
   baseUrl |-> baseUrl]

\* ------------------------------------------------------------------------
\* Credential Store (AsyncStorage)
\* ------------------------------------------------------------------------
getItem(st, key) == st[key]

\* setItem either stores the value or rejects and stores nothing.
setItem(st, key, value, ok) == IF ok THEN [st EXCEPT ![key] = value] ELSE st

\* multiRemove removes the first n keys of the list; it resolves when it
\* went through the whole list and rejects when it stopped early.  Removing
\* a key that is absent is not an error.
multiRemove(st, keys, n) ==
  [st |-> [k \in DOMAIN st |->
             IF \E i \in 1..n : keys[i] = k THEN NULL ELSE st[k]],
   threw |-> n < Len(keys)]

\* The outcomes of a multiRemove over LOGOUT_KEYS: every key removed, or a
\* rejection that leaves the store as it was.
RemoveAll == Len(LOGOUT_KEYS)
RemoveOutcomes == {0, RemoveAll}

\* ------------------------------------------------------------------------
\* Refresh endpoint
\* ------------------------------------------------------------------------
\* What fetch() and response.json() can produce for the refresh POST: the
\* request fails at the network level, the server answers non-2xx, the server
\* answers 2xx with a body that is not JSON, or 2xx with a new token pair.
NoHttp == [kind |-> "none", access_token |-> "", refresh_token |-> ""]

\* The token pairs the server hands out.
NewPairs ==
  {[access_token |-> "h.exp2.s", refresh_token |-> "r2"],
   [access_token |-> "opaque", refresh_token |-> "r1"]}

HttpOutcomes ==
  {[kind |-> k, access_token |-> "", refresh_token |-> ""] :
     k \in {"network", "non2xx", "badbody"}}
  \cup {[kind |-> "ok", access_token |-> n.access_token,
         refresh_token |-> n.refresh_token] : n \in NewPairs}

\* The environment's choices for one call: the HTTP outcome, the keys whose
\* setItem rejects, and the outcomes of the first and the second multiRemove.
Env(http, failed, rem1, rem2) ==
  [http |-> http, failed |-> failed, rem1 |-> rem1, rem2 |-> rem2]

\* The choices that matter to a call that posts a refresh: setItem is reached
\* only on a 2xx answer, the first multiRemove only when the refresh failed,
\* the second (initialize's inner catch) only when the first rejected.
RefreshEnvs(second) ==
  {e \in [http : HttpOutcomes, failed : SUBSET {AUTH_TOKEN, REFRESH_TOKEN},
          rem1 : RemoveOutcomes, rem2 : RemoveOutcomes] :
     /\ (e.http.kind # "ok" => e.failed = {})
     /\ (e.http.kind = "ok" /\ e.failed = {} => e.rem1 = RemoveAll)
     /\ (e.rem1 = RemoveAll \/ ~second => e.rem2 = RemoveAll)}

\* The choices that matter to a call that only logs out.
LogoutEnvs ==
  {Env(NoHttp, {}, r1, r2) : r1 \in RemoveOutcomes, r2 \in RemoveOutcomes}

\* ------------------------------------------------------------------------
\* Methods of Auth.  Each takes the Auth value and yields the Auth value at
\* the end of the call with what the call returned or threw, the number of
\* refresh POSTs and of logout() calls it made, the URL it posted to, and
\* whether a store write or removal rejected during it.
\* ------------------------------------------------------------------------
Outcome(a, ret, threw, posts, logouts, url, rejected) ==
  [a |-> a, ret |-> ret, threw |-> threw, posts |-> posts,
   logouts |-> logouts, url |-> url, rejected |-> rejected]

\* A logout that removes the two token keys only.
logoutTokensOnly(a, n) ==
  LET rm == multiRemove(a.store, <<AUTH_TOKEN, REFRESH_TOKEN>>,
                        IF n = RemoveAll THEN 2 ELSE 0)
  IN IF rm.threw
       THEN Outcome([a EXCEPT !.store = rm.st], "undefined", TRUE, 0, 1, "", TRUE)
       ELSE Outcome([a EXCEPT !.store = rm.st,
                              !.isAuthenticated = FALSE,
                              !.instanceType = "",
                              !.apiPrefix = "",
                              !.publicApiPrefix = "",
                              !.cookies = "",
                              !.baseUrl = ""],
                    "undefined", FALSE, 0, 1, "", FALSE)

\* A logout that raises when there is no session to end.
logoutGuarded(a, n) ==
  LET rm == multiRemove(a.store, LOGOUT_KEYS, n)
  IN IF rm.threw \/ a.store = [k \in DOMAIN a.store |-> NULL]
       THEN Outcome([a EXCEPT !.store = rm.st], "undefined", TRUE, 0, 1, "", TRUE)
       ELSE Outcome([a EXCEPT !.store = rm.st,
                              !.isAuthenticated = FALSE,
                              !.instanceType = "",
                              !.apiPrefix = "",
                              !.publicApiPrefix = "",
                              !.cookies = "",
                              !.baseUrl = ""],
                    "undefined", FALSE, 0, 1, "", FALSE)

\* Auth.logout
logout(a, n) ==
  LET rm == multiRemove(a.store, LOGOUT_KEYS, n)
  IN IF rm.threw
       THEN Outcome([a EXCEPT !.store = rm.st], "undefined", TRUE, 0, 1, "", TRUE)
       ELSE Outcome([a EXCEPT !.store = rm.st,
                              !.isAuthenticated = FALSE,
                              !.instanceType = "",
                              !.apiPrefix = "",
                              !.publicApiPrefix = "",
                              !.cookies = "",
                              !.baseUrl = ""],
                    "undefined", FALSE, 0, 1, "", FALSE)

\* A setAuthTokens that writes the access token under both keys.
setAuthTokensTwice(a, accessToken, refreshToken, failed) ==
  LET st1 == setItem(a.store, AUTH_TOKEN, accessToken, AUTH_TOKEN \notin failed)
      st2 == setItem(st1, REFRESH_TOKEN, accessToken, REFRESH_TOKEN \notin failed)
      bad == failed \cap {AUTH_TOKEN, REFRESH_TOKEN} # {}
  IN IF bad
       THEN Outcome([a EXCEPT !.store = st2], "undefined", TRUE, 0, 0, "", TRUE)
       ELSE Outcome([a EXCEPT !.store = st2, !.isAuthenticated = TRUE],
                    "undefined", FALSE, 0, 0, "", FALSE)

\* A setAuthTokens whose catch logs the rejected write and returns.
setAuthTokensSwallows(a, accessToken, refreshToken, failed) ==
  LET st1 == setItem(a.store, AUTH_TOKEN, accessToken, AUTH_TOKEN \notin failed)
      st2 == setItem(st1, REFRESH_TOKEN, refreshToken, REFRESH_TOKEN \notin failed)
      bad == failed \cap {AUTH_TOKEN, REFRESH_TOKEN} # {}
  IN IF bad
       THEN Outcome([a EXCEPT !.store = st2], "undefined", FALSE, 0, 0, "", TRUE)
       ELSE Outcome([a EXCEPT !.store = st2, !.isAuthenticated = TRUE],
                    "undefined", FALSE, 0, 0, "", FALSE)

\* Auth.setAuthTokens: the two writes run under Promise.all, so one can land
\* while the other rejects.
setAuthTokens(a, accessToken, refreshToken, failed) ==
  LET st1 == setItem(a.store, AUTH_TOKEN, accessToken, AUTH_TOKEN \notin failed)
      st2 == setItem(st1, REFRESH_TOKEN, refreshToken, REFRESH_TOKEN \notin failed)
      bad == failed \cap {AUTH_TOKEN, REFRESH_TOKEN} # {}
  IN IF bad
       THEN Outcome([a EXCEPT !.store = st2], "undefined", TRUE, 0, 0, "", TRUE)
       ELSE Outcome([a EXCEPT !.store = st2, !.isAuthenticated = TRUE],
                    "undefined", FALSE, 0, 0, "", FALSE)

\* Auth.refreshAuthToken
refreshAuthToken(a, refreshToken, env) ==
  LET url == a.apiPrefix \o "/oauth/token/refresh"
      set == setAuthTokens(a, env.http.access_token, env.http.refresh_token,
                           env.failed)
      \* the catch block: logout(), then return false
      caught(b, rej) ==
        LET lo == logout(b, env.rem1)
        IN Outcome(lo.a, IF lo.threw THEN "undefined" ELSE "false", lo.threw,
                   1, 1, url, rej \/ lo.rejected)
  IN IF env.http.kind = "ok"
       THEN IF set.threw
              THEN caught(set.a, TRUE)
              ELSE Outcome(set.a, "true", FALSE, 1, 0, url, FALSE)
       ELSE caught(a, FALSE)

\* The expiry test with < for <=: a token is still good at its exp instant.
ExpiredStrict(exp, t) == exp * 1000 < t

\* The expiry test without the conversion of exp to milliseconds.
ExpiredSeconds(exp, t) == exp <= t

\* The expiry test of initialize: exp is in seconds, Date.now() in ms.
Expired(exp, t) == exp * 1000 <= t

\* Auth.initialize
initialize(a, t, env) ==
  LET token == getItem(a.store, AUTH_TOKEN)
      refreshToken == getItem(a.store, REFRESH_TOKEN)
      url == getItem(a.store, INSTANCE_URL)
      type == getItem(a.store, INSTANCE_TYPE)
      sApiPrefix == getItem(a.store, API_PREFIX)
      sPublicApiPrefix == getItem(a.store, PUBLIC_API_PREFIX)
      sCookies == getItem(a.store, COOKIES)
      sBaseUrl == getItem(a.store, BASE_URL)
      a1 == [a EXCEPT !.isAuthenticated = Truthy(token) /\ Truthy(sCookies),
                      !.instanceUrl = OrElse(url, CLOUD_INSTANCE_URL),
                      !.instanceType = OrElse(type, CLOUD),
                      !.apiPrefix = OrElse(sApiPrefix, ""),
                      !.publicApiPrefix = OrElse(sPublicApiPrefix, ""),
                      !.cookies = OrElse(sCookies, ""),
                      !.baseUrl = OrElse(sBaseUrl, "")]
      \* return this.isAuthenticated
      done(o) ==
        Outcome(o.a, BoolStr(o.a.isAuthenticated), FALSE, o.posts, o.logouts,
                o.url, o.rejected)
      \* the outer catch: return false
      outer(o) ==
        Outcome(o.a, "false", FALSE, o.posts, o.logouts, o.url, o.rejected)
      \* the inner catch: logout() once more
      inner(o) ==
        LET lo == logout(o.a, env.rem2)
            sum == Outcome(lo.a, "undefined", lo.threw, o.posts,
                           o.logouts + 1, o.url, o.rejected \/ lo.rejected)
        IN IF lo.threw THEN outer(sum) ELSE done(sum)
      nothing == Outcome(a1, "undefined", FALSE, 0, 0, "", FALSE)
      payload == ParsePayload(Split(token))
      refreshed == refreshAuthToken(a1, refreshToken, env)
      loggedOut == logout(a1, env.rem1)
  IN IF ~Truthy(token) THEN done(nothing)
     ELSE IF payload.threw THEN inner(nothing)
     ELSE IF ~Expired(payload.exp, t) THEN done(nothing)
     ELSE IF Truthy(refreshToken)
       THEN (IF refreshed.threw THEN inner(refreshed) ELSE done(refreshed))
       ELSE (IF loggedOut.threw THEN inner(loggedOut) ELSE done(loggedOut))

\* A setApiPrefix that takes publicApiPrefix as given, without the default.
setApiPrefixAsGiven(a, p, q, failed) ==
  LET st1 == setItem(a.store, API_PREFIX, p, API_PREFIX \notin failed)
      st2 == setItem(st1, PUBLIC_API_PREFIX, q, PUBLIC_API_PREFIX \notin failed)
      bad == failed \cap {API_PREFIX, PUBLIC_API_PREFIX} # {}
  IN IF bad
       THEN Outcome([a EXCEPT !.store = st2], "undefined", TRUE, 0, 0, "", TRUE)
       ELSE Outcome([a EXCEPT !.store = st2,
                              !.apiPrefix = p,
                              !.publicApiPrefix = q],
                    "undefined", FALSE, 0, 0, "", FALSE)

\* Auth.setApiPrefix; publicApiPrefix is UNDEFINED when the caller omits it.
setApiPrefix(a, p, q, failed) ==
  LET st1 == setItem(a.store, API_PREFIX, p, API_PREFIX \notin failed)
      st2 == setItem(st1, PUBLIC_API_PREFIX, OrElse(q, p),
                     PUBLIC_API_PREFIX \notin failed)
      bad == failed \cap {API_PREFIX, PUBLIC_API_PREFIX} # {}
  IN IF bad
       THEN Outcome([a EXCEPT !.store = st2], "undefined", TRUE, 0, 0, "", TRUE)
       ELSE Outcome([a EXCEPT !.store = st2,
                              !.apiPrefix = p,
                              !.publicApiPrefix = OrElse(q, p)],
                    "undefined", FALSE, 0, 0, "", FALSE)

\* Auth.getApiPrefix: caches the cloud default on first use.
getApiPrefix(a) ==
  LET b == IF ~Truthy(a.apiPrefix)
             THEN [a EXCEPT !.apiPrefix = CLOUD_INSTANCE_URL \o "/console/api"]
             ELSE a
  IN Outcome(b, b.apiPrefix, FALSE, 0, 0, "", FALSE)

\* Auth.getPublicApiPrefix
getPublicApiPrefix(a) == OrElse(a.publicApiPrefix, OrElse(a.apiPrefix, ""))

\* Auth.setCookies
setCookies(a, cookieString, ok) ==
  IF ok
    THEN Outcome([a EXCEPT !.store = setItem(a.store, COOKIES, cookieString, TRUE),
                           !.cookies = cookieString,
                           !.isAuthenticated = TRUE],
                 "undefined", FALSE, 0, 0, "", FALSE)
    ELSE Outcome(a, "undefined", TRUE, 0, 0, "", TRUE)

\* Auth.getCookies
getCookies(a) == OrElse(a.cookies, "")

\* Auth.getInstanceType
getInstanceType(a) == OrElse(getItem(a.store, INSTANCE_TYPE), "")

\* Auth.setInstanceType: a rejected write is logged and swallowed.
setInstanceType(a, type, ok) ==
  IF ok
    THEN Outcome([a EXCEPT !.store = setItem(a.store, INSTANCE_TYPE, type, TRUE),
                           !.instanceType = type],
                 "undefined", FALSE, 0, 0, "", FALSE)
    ELSE Outcome(a, "undefined", FALSE, 0, 0, "", TRUE)

\* Auth.getBaseUrl
getBaseUrl(a) == OrElse(getItem(a.store, BASE_URL), "")

\* Auth.setBaseUrl: a rejected write is logged and swallowed.
setBaseUrl(a, url, ok) ==
  IF ok
    THEN Outcome([a EXCEPT !.store = setItem(a.store, BASE_URL, url, TRUE),
                           !.baseUrl = url],
                 "undefined", FALSE, 0, 0, "", FALSE)
    ELSE Outcome(a, "undefined", FALSE, 0, 0, "", TRUE)

\* Auth.checkAuthState
checkAuthState(a) ==
  LET stored == getItem(a.store, IS_AUTHENTICATED)
      b == IF stored # NULL
             THEN [a EXCEPT !.isAuthenticated = (stored = "true")]
             ELSE a
  IN Outcome(b, BoolStr(b.isAuthenticated = TRUE), FALSE, 0, 0, "", FALSE)

\* Auth.setIsAuthenticated: the field is assigned before the write is awaited.
setIsAuthenticated(a, value, ok) ==
  LET b == [a EXCEPT !.isAuthenticated = value,
                     !.store = setItem(a.store, IS_AUTHENTICATED,
                                       BoolStr(value), ok)]
  IN Outcome(b, "undefined", ~ok, 0, 0, "", ~ok)

\* Auth.getSignInUrl
getSignInUrl == CLOUD_INSTANCE_URL \o "/signin"

\* Auth.getToken
getToken(a) == getItem(a.store, AUTH_TOKEN)


\* ------------------------------------------------------------------------
\* Initial state: the static fields as the class declares them, over a store
\* that is empty (first run) or holds the instance keys of an earlier login.
\* ------------------------------------------------------------------------
NoCall ==
  [op |-> "none", arg1 |-> "", arg2 |-> "", http |-> NoHttp,
   ret |-> "undefined", threw |-> FALSE, posts |-> 0, logouts |-> 0,
   url |-> "", rejected |-> FALSE, prev |-> "none"]

\* The record of a call that ended: op(arg1, arg2) under HTTP outcome http
\* (for initialize: the access token and the refresh token it found stored);
\* prev tells whether the call before it was a logout() that resolved.
Call(op, arg1, arg2, http, o) ==
  [op |-> op, arg1 |-> arg1, arg2 |-> arg2, http |-> http,
   ret |-> o.ret, threw |-> o.threw, posts |-> o.posts,
   logouts |-> o.logouts, url |-> o.url, rejected |-> o.rejected,
   prev |-> IF last.op = "logout" /\ ~last.threw THEN "logout" ELSE "other"]

\* Nothing has happened in the login flow yet.
NothingObserved ==
  [events |-> 0, extracting |-> 0, gets |-> 0, failed |-> 0,
   completed |-> 0, failedAt |-> "", rejected |-> FALSE, url |-> "",
   outcome |-> "none", getUrl |-> ""]

\* The navigator was not unmounted yet, no check outlived it, and the
\* authenticated surface was not shown.
NothingPolled ==
  [unmounted |-> FALSE, late |-> FALSE, shownAuthenticated |-> FALSE]

EmptyStore == [k \in StoreKeys |-> NULL]

\* The store as a completed login on a self-hosted instance leaves its
\* instance keys (instance_url as written by an earlier release).
InstanceStore ==
  [EmptyStore EXCEPT ![INSTANCE_URL] = "https://self.example",
                     ![INSTANCE_TYPE] = CUSTOM,
                     ![API_PREFIX] = "https://x/api",
                     ![PUBLIC_API_PREFIX] = "https://y/api",
                     ![BASE_URL] = "https://self.example"]

\* The static fields as the class declares them.
Declared ==
  /\ isAuthenticated = FALSE
  /\ instanceUrl = CLOUD_INSTANCE_URL
  /\ instanceType = ""
  /\ apiPrefix = ""
  /\ publicApiPrefix = ""
  /\ cookies = ""
  /\ baseUrl = ""

\* LoginScreen as its first render leaves it.
ScreenDeclared ==
  /\ loginProcessed = FALSE
  /\ showWebView = FALSE
  /\ webViewUrl = ""
  /\ navs = <<>>
  /\ observed = NothingObserved

\* AppNavigator before it is rendered.
NavigatorDeclared ==
  /\ mounted = FALSE
  /\ navigator = [isLoading |-> TRUE, isAuthenticated |-> FALSE]
  /\ checks = <<>>
  /\ polled = NothingPolled

\* The conversation store as created, no saved-apps screen rendered, no
\* overlapping calls under way.
DataDeclared ==
  /\ conversations = <<>>
  /\ remote = <<>>
  /\ requests = <<>>
  /\ apps = List(<<>>)
  /\ calls = <<>>

Init ==
  /\ store \in {EmptyStore, InstanceStore}
  /\ Declared
  /\ now = 1000
  /\ last = NoCall
  /\ ScreenDeclared
  /\ NavigatorDeclared
  /\ DataDeclared

\* The state at the end of a call.
Becomes(a) ==
  /\ store' = a.store
  /\ isAuthenticated' = a.isAuthenticated
  /\ instanceUrl' = a.instanceUrl
  /\ instanceType' = a.instanceType
  /\ apiPrefix' = a.apiPrefix
  /\ publicApiPrefix' = a.publicApiPrefix
  /\ cookies' = a.cookies
  /\ baseUrl' = a.baseUrl

\* ------------------------------------------------------------------------
\* Actions: one per method of Auth that changes state
\* ------------------------------------------------------------------------
\* Does initialize, in this state, reach the refresh request / a logout?
StoredPayload == ParsePayload(Split(store[AUTH_TOKEN]))

WillRefresh ==
  /\ Truthy(store[AUTH_TOKEN])
  /\ ~StoredPayload.threw
  /\ Expired(StoredPayload.exp, now)
  /\ Truthy(store[REFRESH_TOKEN])

WillLogout ==
  /\ Truthy(store[AUTH_TOKEN])
  /\ (StoredPayload.threw \/ Expired(StoredPayload.exp, now))

Initialize ==
  \E env \in (IF WillRefresh THEN RefreshEnvs(TRUE)
              ELSE IF WillLogout THEN LogoutEnvs
              ELSE {Env(NoHttp, {}, RemoveAll, RemoveAll)}) :
    LET o == initialize(Auth, now, env)
    IN /\ Becomes(o.a)
       /\ last' = Call("initialize", store[AUTH_TOKEN], store[REFRESH_TOKEN],
                       env.http, o)
       /\ UNCHANGED <<now, uiVars>>

SetApiPrefix ==
  \E p \in Prefixes, q \in Prefixes \cup {"", UNDEFINED},
     failed \in SUBSET {API_PREFIX, PUBLIC_API_PREFIX} :
    LET o == setApiPrefix(Auth, p, q, failed)
    IN /\ Becomes(o.a)
       /\ last' = Call("setApiPrefix", p, q, NoHttp, o)
       /\ UNCHANGED <<now, uiVars>>

GetApiPrefix ==
  LET o == getApiPrefix(Auth)
  IN /\ Becomes(o.a)
     /\ last' = Call("getApiPrefix", "", "", NoHttp, o)
     /\ UNCHANGED <<now, uiVars>>

SetAuthTokens ==
  \E t \in Tokens, r \in RefreshTokens,
     failed \in SUBSET {AUTH_TOKEN, REFRESH_TOKEN} :
    LET o == setAuthTokens(Auth, t, r, failed)
    IN /\ Becomes(o.a)
       /\ last' = Call("setAuthTokens", "", "", NoHttp, o)
       /\ UNCHANGED <<now, uiVars>>

RefreshAuthToken ==
  \E r \in RefreshTokens, env \in RefreshEnvs(FALSE) :
    LET o == refreshAuthToken(Auth, r, env)
    IN /\ Becomes(o.a)
       /\ last' = Call("refreshAuthToken", "", "", env.http, o)
       /\ UNCHANGED <<now, uiVars>>

SetCookies ==
  \E c \in CookieStrings, ok \in BOOLEAN :
    LET o == setCookies(Auth, c, ok)
    IN /\ Becomes(o.a)
       /\ last' = Call("setCookies", "", "", NoHttp, o)
       /\ UNCHANGED <<now, uiVars>>

SetInstanceType ==
  \E type \in INSTANCE_TYPES, ok \in BOOLEAN :
    LET o == setInstanceType(Auth, type, ok)
    IN /\ Becomes(o.a)
       /\ last' = Call("setInstanceType", type, "", NoHttp, o)
       /\ UNCHANGED <<now, uiVars>>

SetBaseUrl ==
  \E url \in BaseUrls \cup {CLOUD_INSTANCE_URL}, ok \in BOOLEAN :
    LET o == setBaseUrl(Auth, url, ok)
    IN /\ Becomes(o.a)
       /\ last' = Call("setBaseUrl", url, "", NoHttp, o)
       /\ UNCHANGED <<now, uiVars>>

Logout ==
  \E n \in RemoveOutcomes :
    LET o == logout(Auth, n)
    IN /\ Becomes(o.a)
       /\ last' = Call("logout", "", "", NoHttp, o)
       /\ UNCHANGED <<now, uiVars>>

CheckAuthState ==
  LET o == checkAuthState(Auth)
  IN /\ Becomes(o.a)
     /\ last' = Call("checkAuthState", "", "", NoHttp, o)
     /\ UNCHANGED <<now, uiVars>>

SetIsAuthenticated ==
  \E value \in BOOLEAN, ok \in BOOLEAN :
    LET o == setIsAuthenticated(Auth, value, ok)
    IN /\ Becomes(o.a)
       /\ last' = Call("setIsAuthenticated", BoolStr(value), "", NoHttp, o)
       /\ UNCHANGED <<now, uiVars>>

\* The app process is started again: the static fields are declared afresh,
\* the Credential Store keeps its content.
Restart ==
  /\ isAuthenticated' = FALSE
  /\ instanceUrl' = CLOUD_INSTANCE_URL
  /\ instanceType' = ""
  /\ apiPrefix' = ""
  /\ publicApiPrefix' = ""
  /\ cookies' = ""
  /\ baseUrl' = ""
  /\ last' = NoCall
  /\ UNCHANGED <<store, now, uiVars>>

\* Time passes.
Tick ==
  /\ now < MaxNow * 1000
  /\ now' = now + 1000
  /\ UNCHANGED <<store, isAuthenticated, instanceUrl, instanceType, apiPrefix,
                 publicApiPrefix, cookies, baseUrl, last, uiVars>>

\* The session life cycle: tokens, cookies, the authenticated flag.
Next ==
  \/ Initialize
  \/ SetAuthTokens
  \/ RefreshAuthToken
  \/ SetCookies
  \/ Logout
  \/ CheckAuthState
  \/ SetIsAuthenticated
  \/ Restart
  \/ Tick

Spec == Init /\ [][Next]_vars

\* The instance configuration: the API prefixes, the instance type and the
\* base URL vary freely; no token is ever stored here.
InitPrefix ==
  /\ store = EmptyStore
  /\ Declared
  /\ now = 1000
  /\ last = NoCall
  /\ ScreenDeclared
  /\ NavigatorDeclared
  /\ DataDeclared

NextPrefix ==
  \/ SetApiPrefix
  \/ GetApiPrefix
  \/ SetInstanceType
  \/ SetBaseUrl
  \/ Initialize
  \/ Logout
  \/ Restart

SpecPrefix == InitPrefix /\ [][NextPrefix]_vars


\* ------------------------------------------------------------------------
\* LoginScreen (src/components/auth/LoginScreen.js)
\* ------------------------------------------------------------------------
\* The number of navigation events the embedded browser reports.
MaxEvents == 3

\* The URLs the embedded browser reports: the landing page of the cloud and
\* of a self-hosted instance with the tokens of a login, the landing page
\* without tokens, the sign-in page, and a landing URL without scheme and
\* host.
LANDING_CLOUD ==
  "https://cloud.dify.ai/apps?access_token=h.exp2.s&refresh_token=r1"
LANDING_SELF ==
  "https://self.example/apps?access_token=opaque&refresh_token=r2"
LANDING_BARE == "https://cloud.dify.ai/apps"
SIGNIN_PAGE == "https://cloud.dify.ai/signin"
LANDING_RELATIVE == "/apps?access_token=h.exp2.s&refresh_token=r1"

NavUrls ==
  {LANDING_CLOUD, LANDING_SELF, LANDING_BARE, SIGNIN_PAGE, LANDING_RELATIVE}

\* new URL(url) with the fields the handler reads; searchParams.get gives
\* null for a parameter that is not there; a URL without scheme throws.
ParseURL(url) ==
  CASE url = LANDING_CLOUD ->
         [threw |-> FALSE, pathname |-> "/apps", hostname |-> "cloud.dify.ai",
          origin |-> "https://cloud.dify.ai", access_token |-> "h.exp2.s",
          refresh_token |-> "r1"]
    [] url = LANDING_SELF ->
         [threw |-> FALSE, pathname |-> "/apps", hostname |-> "self.example",
          origin |-> "https://self.example", access_token |-> "opaque",
          refresh_token |-> "r2"]
    [] url = LANDING_BARE ->
         [threw |-> FALSE, pathname |-> "/apps", hostname |-> "cloud.dify.ai",
          origin |-> "https://cloud.dify.ai", access_token |-> NULL,
          refresh_token |-> NULL]
    [] url = SIGNIN_PAGE ->
         [threw |-> FALSE, pathname |-> "/signin",
          hostname |-> "cloud.dify.ai", origin |-> "https://cloud.dify.ai",
          access_token |-> NULL, refresh_token |-> NULL]
    [] OTHER ->
         [threw |-> TRUE, pathname |-> "", hostname |-> "", origin |-> "",
          access_token |-> NULL, refresh_token |-> NULL]

\* url.includes('/apps')
IncludesApps(url) ==
  url \in {LANDING_CLOUD, LANDING_SELF, LANDING_BARE, LANDING_RELATIVE}

\* What the user types into the domain field.
Domains ==
  {"dify.example.com", "https://dify.example.com", "httpbin.example.com"}

\* customDomain.startsWith('http')
StartsWithHttp(d) == d \in {"https://dify.example.com", "httpbin.example.com"}

\* The bodies the apps endpoint answers with.
AppsBodies == {"[]", "{\"data\":[]}"}

\* The messages the page posts to the app.
Messages ==
  {[type |-> "COOKIES", cookies |-> c, apiPrefix |-> UNDEFINED,
    publicApiPrefix |-> UNDEFINED] : c \in CookieStrings}
  \cup {[type |-> "API_PREFIX", cookies |-> UNDEFINED, apiPrefix |-> p,
         publicApiPrefix |-> q] : p \in Prefixes, q \in Prefixes}

\* The static methods class Auth defines.
AuthMethods ==
  {"initialize", "setApiPrefix", "getApiPrefix", "getPublicApiPrefix",
   "setAuthTokens", "refreshAuthToken", "setCookies", "getCookies",
   "getInstanceType", "setInstanceType", "getBaseUrl", "setBaseUrl",
   "logout", "checkAuthState", "setIsAuthenticated", "getSignInUrl",
   "getToken"}

\* handleWebViewMessage.  A rejected setCookies is caught and logged; the
\* API_PREFIX branch calls Auth.setApiPrefixes, which class Auth does not
\* define: the call throws a TypeError that the inner catch logs.
handleWebViewMessage(a, data, ok) ==
  IF data.type = "COOKIES"
    THEN LET o == setCookies(a, data.cookies, ok)
         IN Outcome(o.a, "undefined", FALSE, 0, 0, "", o.rejected)
    ELSE IF data.type = "API_PREFIX"
      THEN Outcome(a, "undefined", FALSE, 0, 0, "",
                   "setApiPrefixes" \notin AuthMethods)
      ELSE Outcome(a, "undefined", FALSE, 0, 0, "", FALSE)

\* handleCloudLogin up to the two state setters: the Auth value and the URL
\* the browser is opened on.
handleCloudLogin(a, ok) ==
  LET o == setInstanceType(a, CLOUD, ok)
  IN Outcome(o.a, "undefined", FALSE, 0, 0, getSignInUrl, o.rejected)

\* handleCustomLogin for a non-empty domain: the second argument of
\* Auth.setInstanceType(CUSTOM, domain) has no parameter to bind to.
handleCustomLogin(a, customDomain, ok) ==
  LET domain == IF StartsWithHttp(customDomain)
                  THEN customDomain
                  ELSE "https://" \o customDomain
      o == setInstanceType(a, CUSTOM, ok)
  IN Outcome(o.a, domain, FALSE, 0, 0, getSignInUrl, o.rejected)

\* Lines 133-134: return when the redirect was processed already, mark it
\* processed otherwise.
EnterExtractingUnchecked(processed) == [proceed |-> TRUE, processed |-> TRUE]

EnterExtracting(processed) == [proceed |-> ~processed, processed |-> TRUE]

RemoveAt(s, i) == SubSeq(s, 1, i - 1) \o SubSeq(s, i + 1, Len(s))

\* The user taps "Login with Dify Cloud".
HandleCloudLogin ==
  /\ ~showWebView
  /\ \E ok \in BOOLEAN :
       LET o == handleCloudLogin(Auth, ok)
       IN /\ Becomes(o.a)
          /\ webViewUrl' = o.url
          /\ showWebView' = TRUE
  /\ UNCHANGED <<now, last, loginProcessed, navs, observed, navigatorVars, dataVars>>

\* The user confirms the domain dialog.
HandleCustomLogin ==
  /\ ~showWebView
  /\ \E customDomain \in Domains \cup {""}, ok \in BOOLEAN :
       IF ~Truthy(customDomain)
         THEN /\ last' = Call("handleCustomLogin", customDomain, "", NoHttp,
                              Outcome(Auth, "", FALSE, 0, 0, "", FALSE))
              /\ UNCHANGED <<store, isAuthenticated, instanceUrl,
                             instanceType, apiPrefix, publicApiPrefix,
                             cookies, baseUrl, webViewUrl, showWebView>>
         ELSE LET o == handleCustomLogin(Auth, customDomain, ok)
              IN /\ Becomes(o.a)
                 /\ webViewUrl' = o.url
                 /\ showWebView' = TRUE
                 /\ last' = Call("handleCustomLogin", customDomain, "",
                                 NoHttp, o)
  /\ UNCHANGED <<now, loginProcessed, navs, observed, navigatorVars, dataVars>>

\* The page posts a message.
HandleWebViewMessage ==
  /\ showWebView
  /\ \E data \in Messages, ok \in BOOLEAN :
       LET o == handleWebViewMessage(Auth, data, ok)
       IN /\ Becomes(o.a)
          /\ last' = Call("handleWebViewMessage", data.apiPrefix,
                          data.publicApiPrefix, NoHttp, o)
  /\ UNCHANGED <<now, screenVars, navigatorVars, dataVars>>

\* The user dismisses the browser (onRequestClose).
CloseWebView ==
  /\ showWebView
  /\ showWebView' = FALSE
  /\ UNCHANGED <<store, isAuthenticated, instanceUrl, instanceType, apiPrefix,
                 publicApiPrefix, cookies, baseUrl, now, last, loginProcessed,
                 webViewUrl, navs, observed, navigatorVars, dataVars>>

AuthUnchanged ==
  UNCHANGED <<store, isAuthenticated, instanceUrl, instanceType, apiPrefix,
              publicApiPrefix, cookies, baseUrl>>

\* The catch of the extraction: the failure is logged and an alert shown.
Failed(i, at) ==
  /\ navs' = RemoveAt(navs, i)
  /\ observed' = [observed EXCEPT !.failed = @ + 1,
                                  !.failedAt = at,
                                  !.rejected = @ \/ (at = "store")]

\* handleWebViewNavigation from the event to its first suspension.
NavEvent ==
  /\ showWebView
  /\ observed.events < MaxEvents
  /\ \E url \in NavUrls :
       LET p == ParseURL(url)
           e == EnterExtracting(loginProcessed)
           seen == [observed EXCEPT !.events = @ + 1, !.url = url]
       IN IF ~p.threw /\ p.pathname = "/apps"
            THEN IF ~e.proceed
                   THEN /\ observed' = [seen EXCEPT !.outcome = "ignored"]
                        /\ AuthUnchanged
                        /\ UNCHANGED <<loginProcessed, navs>>
                   ELSE /\ loginProcessed' = e.processed
                        /\ IF Truthy(p.access_token)
                             THEN /\ navs' = Append(navs, [pc |-> "setToken",
                                                          url |-> url,
                                                          apps |-> ""])
                                  /\ observed' =
                                       [seen EXCEPT !.outcome = "started",
                                                    !.extracting = @ + 1]
                                  /\ AuthUnchanged
                             ELSE LET o == getApiPrefix(Auth)
                                  IN /\ Becomes(o.a)
                                     /\ navs' = Append(navs, [pc |-> "fetch",
                                                             url |-> url,
                                                             apps |-> ""])
                                     /\ observed' =
                                          [seen EXCEPT
                                             !.outcome = "started",
                                             !.extracting = @ + 1,
                                             !.gets = @ + 1,
                                             !.getUrl = o.ret \o "/apps"]
            ELSE IF p.threw /\ IncludesApps(url) /\ ~loginProcessed
                   \* line 196: new URL(url) throws again, the catch of
                   \* line 243 shows the alert
                   THEN /\ loginProcessed' = TRUE
                        /\ observed' = [seen EXCEPT !.outcome = "failed",
                                                    !.extracting = @ + 1,
                                                    !.failed = @ + 1,
                                                    !.failedAt = "parse"]
                        /\ AuthUnchanged
                        /\ UNCHANGED navs
                   ELSE /\ observed' = [seen EXCEPT !.outcome = "other"]
                        /\ AuthUnchanged
                        /\ UNCHANGED <<loginProcessed, navs>>
  /\ UNCHANGED <<now, last, showWebView, webViewUrl, navigatorVars, dataVars>>

\* The handler resumes after AsyncStorage.setItem('auth_token', accessToken).
NavSetToken ==
  \E i \in 1..Len(navs), ok \in BOOLEAN :
    /\ navs[i].pc = "setToken"
    /\ LET p == ParseURL(navs[i].url)
       IN IF ok
            THEN /\ store' = setItem(store, AUTH_TOKEN, p.access_token, TRUE)
                 /\ navs' = [navs EXCEPT ![i].pc =
                               IF Truthy(p.refresh_token)
                                 THEN "setRefresh" ELSE "setInstanceType"]
                 /\ UNCHANGED observed
            ELSE /\ Failed(i, "store")
                 /\ UNCHANGED store
    /\ UNCHANGED <<isAuthenticated, instanceUrl, instanceType, apiPrefix,
                   publicApiPrefix, cookies, baseUrl, now, last,
                   loginProcessed, showWebView, webViewUrl, navigatorVars, dataVars>>

\* ... after AsyncStorage.setItem('refresh_token', refreshToken).
NavSetRefresh ==
  \E i \in 1..Len(navs), ok \in BOOLEAN :
    /\ navs[i].pc = "setRefresh"
    /\ LET p == ParseURL(navs[i].url)
       IN IF ok
            THEN /\ store' = setItem(store, REFRESH_TOKEN, p.refresh_token,
                                     TRUE)
                 /\ navs' = [navs EXCEPT ![i].pc = "setInstanceType"]
                 /\ UNCHANGED observed
            ELSE /\ Failed(i, "store")
                 /\ UNCHANGED store
    /\ UNCHANGED <<isAuthenticated, instanceUrl, instanceType, apiPrefix,
                   publicApiPrefix, cookies, baseUrl, now, last,
                   loginProcessed, showWebView, webViewUrl, navigatorVars, dataVars>>

\* ... after Auth.setInstanceType(instanceType).
NavSetInstanceType ==
  \E i \in 1..Len(navs), ok \in BOOLEAN :
    /\ navs[i].pc = "setInstanceType"
    /\ LET p == ParseURL(navs[i].url)
           isCloud == p.hostname = "cloud.dify.ai"
           o == setInstanceType(Auth, IF isCloud THEN CLOUD ELSE CUSTOM, ok)
       IN /\ Becomes(o.a)
          /\ navs' = [navs EXCEPT ![i].pc = "setBaseUrl"]
          /\ observed' = [observed EXCEPT !.rejected = @ \/ o.rejected]
    /\ UNCHANGED <<now, last, loginProcessed, showWebView, webViewUrl,
                   navigatorVars, dataVars>>

\* ... after Auth.setBaseUrl(baseUrl): the API prefix is read and the apps
\* request sent.
NavSetBaseUrl ==
  \E i \in 1..Len(navs), ok \in BOOLEAN :
    /\ navs[i].pc = "setBaseUrl"
    /\ LET p == ParseURL(navs[i].url)
           o == setBaseUrl(Auth, p.origin, ok)
           g == getApiPrefix(o.a)
       IN /\ Becomes(g.a)
          /\ navs' = [navs EXCEPT ![i].pc = "fetch"]
          /\ observed' = [observed EXCEPT !.rejected = @ \/ o.rejected,
                                          !.gets = @ + 1,
                                          !.getUrl = g.ret \o "/apps"]
    /\ UNCHANGED <<now, last, loginProcessed, showWebView, webViewUrl,
                   navigatorVars, dataVars>>

\* ... after fetch and response.json(): on a 2xx answer with a JSON body
\* Auth.setIsAuthenticated(true) is called, which assigns the field and
\* suspends at its write.
NavFetch ==
  \E i \in 1..Len(navs), kind \in {"network", "non2xx", "badbody", "ok"},
     body \in AppsBodies :
    /\ navs[i].pc = "fetch"
    /\ IF kind = "ok"
         THEN /\ isAuthenticated' = TRUE
              /\ navs' = [navs EXCEPT ![i].pc = "setIsAuthenticated",
                                      ![i].apps = body]
              /\ UNCHANGED observed
         ELSE /\ Failed(i, "fetch")
              /\ UNCHANGED isAuthenticated
    /\ UNCHANGED <<store, instanceUrl, instanceType, apiPrefix,
                   publicApiPrefix, cookies, baseUrl, now, last,
                   loginProcessed, showWebView, webViewUrl, navigatorVars, dataVars>>

\* ... after Auth.setIsAuthenticated(true): the browser is closed.
NavSetIsAuthenticated ==
  \E i \in 1..Len(navs), ok \in BOOLEAN :
    /\ navs[i].pc = "setIsAuthenticated"
    /\ LET o == setIsAuthenticated(Auth, TRUE, ok)
       IN /\ Becomes(o.a)
          /\ IF o.threw
               THEN /\ Failed(i, "store")
                    /\ UNCHANGED showWebView
               ELSE /\ showWebView' = FALSE
                    /\ navs' = [navs EXCEPT ![i].pc = "setApps"]
                    /\ UNCHANGED observed
    /\ UNCHANGED <<now, last, loginProcessed, webViewUrl, navigatorVars, dataVars>>

\* ... after AsyncStorage.setItem('apps', JSON.stringify(apps)):
\* navigation.replace('Login') puts a new LoginScreen in place of this one.
NavSetApps ==
  \E i \in 1..Len(navs), ok \in BOOLEAN :
    /\ navs[i].pc = "setApps"
    /\ IF ok
         THEN /\ store' = setItem(store, APPS, navs[i].apps, TRUE)
              /\ navs' = RemoveAt(navs, i)
              /\ observed' = [observed EXCEPT !.completed = @ + 1,
                                              !.failedAt = ""]
              /\ loginProcessed' = FALSE
              /\ showWebView' = FALSE
              /\ webViewUrl' = ""
         ELSE /\ Failed(i, "store")
              /\ UNCHANGED <<store, loginProcessed, showWebView, webViewUrl>>
    /\ UNCHANGED <<isAuthenticated, instanceUrl, instanceType, apiPrefix,
                   publicApiPrefix, cookies, baseUrl, now, last,
                   navigatorVars, dataVars>>

\* The login flow: the browser is opened and reports its navigation to the
\* handler, whose calls run step by step.
InitLogin ==
  /\ store = EmptyStore
  /\ Declared
  /\ now = 1000
  /\ last = NoCall
  /\ ScreenDeclared
  /\ NavigatorDeclared
  /\ DataDeclared

NextLogin ==
  \/ HandleCloudLogin
  \/ CloseWebView
  \/ NavEvent
  \/ NavSetToken
  \/ NavSetRefresh
  \/ NavSetInstanceType
  \/ NavSetBaseUrl
  \/ NavFetch
  \/ NavSetIsAuthenticated
  \/ NavSetApps

SpecLogin == InitLogin /\ [][NextLogin]_vars

\* The launch of the browser and the messages of the page.
NextLaunch ==
  \/ HandleCloudLogin
  \/ HandleCustomLogin
  \/ HandleWebViewMessage
  \/ CloseWebView
  \/ GetApiPrefix

SpecLaunch == InitLogin /\ [][NextLaunch]_vars

\* ------------------------------------------------------------------------
\* AppNavigator (src/navigation/AppNavigator.js)
\* ------------------------------------------------------------------------
\* The number of checks that are in flight at a time.
MaxChecks == 2

\* The store of a process started again after a login that completed.
LoggedInStore ==
  [EmptyStore EXCEPT ![AUTH_TOKEN] = "h.exp2.s",
                     ![REFRESH_TOKEN] = "r1",
                     ![INSTANCE_TYPE] = CLOUD,
                     ![BASE_URL] = CLOUD_INSTANCE_URL,
                     ![IS_AUTHENTICATED] = "true",
                     ![APPS] = "[]"]

\* The interval of the second effect fires while nothing has cleared it.
IntervalLeaks(isMounted, wasUnmounted) == isMounted \/ wasUnmounted

\* The interval of the second effect: set on mount, cleared by the effect's
\* cleanup on unmount.
IntervalRuns(isMounted, wasUnmounted) == isMounted

\* A state setter of useState: React drops the update of a component that
\* is not mounted any more.
SetState(isMounted, state, field, value) ==
  IF isMounted THEN [state EXCEPT ![field] = value] ELSE state

\* The result of the mount-time check is applied; a poll's result is not.
applyCheckOnMountOnly(isMounted, state, kind, isAuth) ==
  IF kind = "mount"
    THEN SetState(isMounted,
                  SetState(isMounted, state, "isAuthenticated", isAuth),
                  "isLoading", FALSE)
    ELSE state

\* What follows "await Auth.checkAuthState()": the mount-time check sets
\* isAuthenticated and, in its finally, isLoading; a poll sets
\* isAuthenticated.
applyCheck(isMounted, state, kind, isAuth) ==
  IF kind = "mount"
    THEN SetState(isMounted,
                  SetState(isMounted, state, "isAuthenticated", isAuth),
                  "isLoading", FALSE)
    ELSE SetState(isMounted, state, "isAuthenticated", isAuth)

\* AppNavigator is rendered: the first effect starts its check, the second
\* sets the interval.
Mount ==
  /\ ~mounted
  /\ ~polled.unmounted
  /\ mounted' = TRUE
  /\ navigator' = [isLoading |-> TRUE, isAuthenticated |-> FALSE]
  /\ checks' = <<"mount">>
  /\ UNCHANGED <<store, isAuthenticated, instanceUrl, instanceType, apiPrefix,
                 publicApiPrefix, cookies, baseUrl, now, last, screenVars, dataVars,
                 polled>>

\* The interval fires: a poll calls Auth.checkAuthState() and is suspended
\* at its read of the store.
PollStart ==
  /\ IntervalRuns(mounted, polled.unmounted)
  /\ Len(checks) < MaxChecks
  /\ checks' = Append(checks, "poll")
  /\ UNCHANGED <<store, isAuthenticated, instanceUrl, instanceType, apiPrefix,
                 publicApiPrefix, cookies, baseUrl, now, last, screenVars, dataVars,
                 mounted, navigator, polled>>

\* The oldest check in flight resumes: Auth.checkAuthState() reads the
\* store, returns, and the result is handed to the state setters.
CheckDone ==
  /\ checks # <<>>
  /\ LET o == checkAuthState(Auth)
     IN /\ Becomes(o.a)
        /\ navigator' = applyCheck(mounted, navigator, Head(checks),
                                   o.ret = "true")
  /\ checks' = Tail(checks)
  /\ polled' = [polled EXCEPT
                  !.late = @ \/ ~mounted,
                  !.shownAuthenticated = @ \/ navigator'.isAuthenticated]
  /\ UNCHANGED <<now, last, screenVars, dataVars, mounted>>

\* AppNavigator is unmounted: the cleanup of the second effect runs.
Unmount ==
  /\ mounted
  /\ mounted' = FALSE
  /\ polled' = [polled EXCEPT !.unmounted = TRUE]
  /\ UNCHANGED <<store, isAuthenticated, instanceUrl, instanceType, apiPrefix,
                 publicApiPrefix, cookies, baseUrl, now, last, screenVars, dataVars,
                 navigator, checks>>

\* The login flow marks the session authenticated
\* (LoginScreen: Auth.setIsAuthenticated(true)).
LoginAuthenticated ==
  \E ok \in BOOLEAN :
    LET o == setIsAuthenticated(Auth, TRUE, ok)
    IN /\ Becomes(o.a)
       /\ last' = Call("setIsAuthenticated", BoolStr(TRUE), "", NoHttp, o)
       /\ UNCHANGED <<now, uiVars>>

\* The navigator with the calls the screens make on the session: the login
\* flow's setCookies and setIsAuthenticated(true), the account screen's
\* logout.
InitNav ==
  /\ store \in {EmptyStore, LoggedInStore}
  /\ Declared
  /\ now = 1000
  /\ last = NoCall
  /\ ScreenDeclared
  /\ NavigatorDeclared
  /\ DataDeclared

NextNav ==
  \/ Mount
  \/ PollStart
  \/ CheckDone
  \/ Unmount
  \/ LoginAuthenticated
  \/ SetCookies
  \/ Logout

SpecNav == InitNav /\ [][NextNav]_vars

\* The timer keeps firing while it is set and a read of the store settles.
SpecNavFair == SpecNav /\ WF_vars(PollStart) /\ WF_vars(CheckDone)

\* ------------------------------------------------------------------------
\* WelcomeScreen and useConversationStore (src/unnamed/part_005, part_002)
\* ------------------------------------------------------------------------
\* The number of WelcomeScreen requests that are in flight at a time.
MaxRequests == 2

\* The conversations the server holds when the screen opens.
REMOTE_CONVERSATIONS == <<"c1", "c2", "c3">>

\* conversations.filter(conv => conv.id !== id), which removes nothing.
deleteConversationKeeps(list, id) == list

\* useConversationStore.deleteConversation: the list without the id.
deleteConversation(list, id) == SelectSeq(list, LAMBDA conv : conv # id)

\* The data field of an answer: absent, or the list of conversations.
NoData == [present |-> FALSE, list |-> <<>>]
Data(list) == [present |-> TRUE, list |-> list]

\* useConversationStore.setConversations(data.data || [])
setConversations(data) == IF data.present THEN data.list ELSE <<>>

\* A request as it leaves the screen: the server has not answered yet.
Request(kind, id) ==
  [kind |-> kind, id |-> id, answer |-> "none", data |-> NoData]

ConversationsUnchanged == UNCHANGED <<conversations, remote>>

RestUnchanged ==
  UNCHANGED <<store, isAuthenticated, instanceUrl, instanceType, apiPrefix,
              publicApiPrefix, cookies, baseUrl, now, screenVars,
              navigatorVars, apps, calls>>

\* fetchConversations on mount, on focus and after a deletion, up to its
\* request.
FetchConversations ==
  /\ Len(requests) < MaxRequests
  /\ requests' = Append(requests, Request("fetch", ""))
  /\ ConversationsUnchanged
  /\ UNCHANGED last
  /\ RestUnchanged

\* The user deletes a conversation of the list: handleDeleteConversation up
\* to its DELETE request.
DeletePress ==
  /\ Len(requests) < MaxRequests
  /\ \E k \in 1..Len(conversations) :
       requests' = Append(requests, Request("delete", conversations[k]))
  /\ ConversationsUnchanged
  /\ UNCHANGED last
  /\ RestUnchanged

\* The server answers a request, or the request fails on the way: a DELETE
\* it accepts removes the conversation there, a GET it accepts is answered
\* with its list, or with a body that has no data field.
Serve ==
  /\ \E i \in 1..Len(requests),
        answer \in {"ok", "nodata", "non2xx", "network"} :
       /\ requests[i].answer = "none"
       /\ requests[i].kind = "delete" => answer # "nodata"
       /\ IF requests[i].kind = "delete" /\ answer = "ok"
            THEN remote' = SelectSeq(remote,
                                     LAMBDA c : c # requests[i].id)
            ELSE remote' = remote
       /\ requests' =
            [requests EXCEPT
               ![i].answer = answer,
               ![i].data = IF requests[i].kind = "fetch" /\ answer = "ok"
                             THEN Data(remote) ELSE NoData]
  /\ UNCHANGED <<conversations, last>>
  /\ RestUnchanged

\* fetchConversations after its request: a 2xx answer replaces the list,
\* anything else sets the error text.
FetchResponse ==
  /\ \E i \in 1..Len(requests) :
       /\ requests[i].kind = "fetch"
       /\ requests[i].answer # "none"
       /\ conversations' =
            IF requests[i].answer \in {"ok", "nodata"}
              THEN setConversations(requests[i].data)
              ELSE conversations
       /\ requests' = RemoveAt(requests, i)
  /\ UNCHANGED <<remote, last>>
  /\ RestUnchanged

\* handleDeleteConversation after its request: a 2xx answer removes the
\* conversation from the store's list and starts fetchConversations,
\* anything else shows the alert.
DeleteResponse ==
  /\ \E i \in 1..Len(requests) :
       /\ requests[i].kind = "delete"
       /\ requests[i].answer # "none"
       /\ IF requests[i].answer = "ok"
            THEN /\ conversations' =
                      deleteConversation(conversations, requests[i].id)
                 /\ requests' = Append(RemoveAt(requests, i),
                                       Request("fetch", ""))
                 /\ last' = [NoCall EXCEPT
                               !.op = "handleDeleteConversation",
                               !.arg1 = requests[i].id,
                               !.ret = "deleted"]
            ELSE /\ conversations' = conversations
                 /\ requests' = RemoveAt(requests, i)
                 /\ last' = [NoCall EXCEPT
                               !.op = "handleDeleteConversation",
                               !.arg1 = requests[i].id,
                               !.ret = "alert"]
  /\ UNCHANGED remote
  /\ RestUnchanged

\* WelcomeScreen opened for an app: the store's list is empty, the server
\* holds the conversations.
InitConversations ==
  /\ store = EmptyStore
  /\ Declared
  /\ now = 1000
  /\ last = NoCall
  /\ ScreenDeclared
  /\ NavigatorDeclared
  /\ conversations = <<>>
  /\ remote = REMOTE_CONVERSATIONS
  /\ requests = <<>>
  /\ apps = List(<<>>)
  /\ calls = <<>>

NextConversations ==
  \/ FetchConversations
  \/ DeletePress
  \/ Serve
  \/ FetchResponse
  \/ DeleteResponse

SpecConversations == InitConversations /\ [][NextConversations]_vars

\* ------------------------------------------------------------------------
\* The app screens (src/components/app/AppSetupScreen.js)
\* ------------------------------------------------------------------------
\* The number of apps a saved list holds.
MaxApps == 2

\* The ids of app records: the one the server lists, and Date.now() as a
\* string, which handleSave gives a new app.
SERVER_APP == "a1"
AppIds == {SERVER_APP} \cup {ToString(k * 1000) : k \in 1..MaxNow}

\* JSON.stringify of an app record, of the records of an array, of a value.
AppText(id) == "{\"id\":\"" \o id \o "\"}"

RECURSIVE Join(_)
Join(ids) ==
  IF ids = <<>>
    THEN ""
    ELSE IF Len(ids) = 1
           THEN AppText(ids[1])
           ELSE AppText(ids[1]) \o "," \o Join(Tail(ids))

JSONStringify(v) ==
  IF v.wrapped
    THEN "{\"data\":[" \o Join(v.ids) \o "]}"
    ELSE "[" \o Join(v.ids) \o "]"

AppsValues ==
  [wrapped : BOOLEAN,
   ids : UNION {[1..n -> AppIds] : n \in 0..MaxApps}]

\* JSON.parse of a text JSON.stringify produced.
JSONParse(text) == CHOOSE v \in AppsValues : JSONStringify(v) = text

\* What the apps endpoint answers with: the object with the data array, or
\* a bare array.  One app at most, so that data.data.sort leaves the order.
ApiAnswers ==
  {Wrapper(<<>>), Wrapper(<<SERVER_APP>>), List(<<>>), List(<<SERVER_APP>>)}

\* The app screens are used while the login screen is not at work.
AppsIdle == ~showWebView /\ navs = <<>>

AppsRest ==
  UNCHANGED <<now, last, screenVars, navigatorVars, conversations, remote,
              requests, calls>>

\* AppListScreen.fetchApps: without a stored token it returns; a 2xx answer
\* is read through data.data, which throws on a bare array, and then the
\* whole answer is stored under apps.
FetchApps ==
  /\ AppsIdle
  /\ \E kind \in {"network", "non2xx", "ok"}, data \in ApiAnswers,
        ok \in BOOLEAN :
       LET g == getApiPrefix(Auth)
           authToken == getItem(g.a.store, AUTH_TOKEN)
       IN IF Truthy(authToken) /\ kind = "ok" /\ data.wrapped
            THEN Becomes([g.a EXCEPT
                            !.store = setItem(@, APPS, JSONStringify(data),
                                              ok)])
            ELSE Becomes(g.a)
  /\ UNCHANGED apps
  /\ AppsRest

\* AppSetupScreen.handleSave: the stored value is parsed and spread into a
\* new array with the new app behind it; a value that is not an array
\* cannot be spread, and the alert is shown.
HandleSave ==
  /\ AppsIdle
  /\ Truthy(store[APPS]) => Len(JSONParse(store[APPS]).ids) < MaxApps
  /\ \E appId \in {"", "app-1"}, appKey \in {"", "key-1"}, ok \in BOOLEAN :
       LET existingAppsJson == getItem(store, APPS)
           existingApps == IF Truthy(existingAppsJson)
                             THEN JSONParse(existingAppsJson)
                             ELSE List(<<>>)
           updatedApps == List(Append(existingApps.ids, ToString(now)))
       IN IF ~Truthy(appId) \/ ~Truthy(appKey) \/ existingApps.wrapped
            THEN UNCHANGED store
            ELSE store' = setItem(store, APPS, JSONStringify(updatedApps),
                                  ok)
  /\ UNCHANGED <<isAuthenticated, instanceUrl, instanceType, apiPrefix,
                 publicApiPrefix, cookies, baseUrl, apps>>
  /\ AppsRest

\* loadApps of the screen that lists the saved apps: the stored value
\* becomes the screen's apps, whatever it is.
LoadApps ==
  /\ AppsIdle
  /\ apps' = IF Truthy(getItem(store, APPS))
               THEN JSONParse(getItem(store, APPS))
               ELSE apps
  /\ AuthUnchanged
  /\ AppsRest

\* handleDeleteApp of that screen, for an app it shows: the apps without
\* it are stored and become the screen's apps.
HandleDeleteApp ==
  /\ AppsIdle
  /\ ~apps.wrapped
  /\ \E k \in 1..Len(apps.ids), ok \in BOOLEAN :
       LET updatedApps ==
             List(SelectSeq(apps.ids, LAMBDA id : id # apps.ids[k]))
       IN IF ok
            THEN /\ store' = setItem(store, APPS, JSONStringify(updatedApps),
                                     TRUE)
                 /\ apps' = updatedApps
            ELSE UNCHANGED <<store, apps>>
  /\ UNCHANGED <<isAuthenticated, instanceUrl, instanceType, apiPrefix,
                 publicApiPrefix, cookies, baseUrl>>
  /\ AppsRest

\* The app screens next to the login flow.
NextApps ==
  \/ NextLogin
  \/ FetchApps
  \/ HandleSave
  \/ LoadApps
  \/ HandleDeleteApp
  \/ Tick

SpecApps == InitLogin /\ [][NextApps]_vars

\* ------------------------------------------------------------------------
\* Overlapping calls of Auth methods (src/utils/auth.js)
\* ------------------------------------------------------------------------
\* A method that awaits the store suspends with its store operations
\* issued.  AsyncStorage settles the operations of all suspended calls one
\* at a time, in an order of its own; a call resumes when the last of its
\* operations has settled, and takes its catch when one of them rejects.
\* The number of calls made.
MaxCalls == 2

\* The calls the screens make: logout(), setAuthTokens with a token pair,
\* setApiPrefix with and without the public prefix.
CallInputs ==
  {[op |-> "logout", arg1 |-> "", arg2 |-> ""],
   [op |-> "setAuthTokens", arg1 |-> "h.exp2.s", arg2 |-> "r1"]}
  \cup {[op |-> "setApiPrefix", arg1 |-> p, arg2 |-> q] :
          p \in Prefixes, q \in {UNDEFINED, "https://public/api"}}

\* The store operations a call has issued when it suspends.
StoreOps(op, arg1, arg2) ==
  CASE op = "setAuthTokens" ->
         {[key |-> AUTH_TOKEN, value |-> arg1],
          [key |-> REFRESH_TOKEN, value |-> arg2]}
    [] op = "setApiPrefix" ->
         {[key |-> API_PREFIX, value |-> arg1],
          [key |-> PUBLIC_API_PREFIX, value |-> OrElse(arg2, arg1)]}
    [] op = "logout" ->
         {[key |-> "multiRemove", value |-> NULL]}

\* The store after one of these operations has settled.
Settled(st, sop, ok) ==
  IF sop.key = "multiRemove"
    THEN multiRemove(st, LOGOUT_KEYS, IF ok THEN RemoveAll ELSE 0).st
    ELSE setItem(st, sop.key, sop.value, ok)

\* A continuation that assigns nothing.
ResumedForgets(a, call) == a

\* The statements of a method behind its await.
Resumed(a, call) ==
  CASE call.op = "setAuthTokens" -> [a EXCEPT !.isAuthenticated = TRUE]
    [] call.op = "setApiPrefix" ->
         [a EXCEPT !.apiPrefix = call.arg1,
                   !.publicApiPrefix = OrElse(call.arg2, call.arg1)]
    [] call.op = "logout" ->
         [a EXCEPT !.isAuthenticated = FALSE,
                   !.instanceType = "",
                   !.apiPrefix = "",
                   !.publicApiPrefix = "",
                   !.cookies = "",
                   !.baseUrl = ""]

\* A call that is suspended, or has operations that have not settled.
Busy(call) == call.pc = "await" \/ call.pending # {}

OverlapRest ==
  UNCHANGED <<now, last, screenVars, navigatorVars, conversations, remote,
              requests, apps>>

\* A method is called: it runs to its await.  alone records that no other
\* call was under way at any time between its start and its end.
Invoke ==
  /\ Len(calls) < MaxCalls
  /\ \E c \in CallInputs :
       LET busy == \E i \in 1..Len(calls) : Busy(calls[i])
           others == [i \in 1..Len(calls) |->
                        IF Busy(calls[i])
                          THEN [calls[i] EXCEPT !.alone = FALSE]
                          ELSE calls[i]]
       IN calls' = Append(others,
                          [op |-> c.op, arg1 |-> c.arg1, arg2 |-> c.arg2,
                           pc |-> "await",
                           pending |-> StoreOps(c.op, c.arg1, c.arg2),
                           alone |-> ~busy])
  /\ AuthUnchanged
  /\ OverlapRest

\* One store operation settles; the call it belongs to resumes when it was
\* the last one, and throws from its catch when it was rejected.
Settle ==
  /\ \E i \in 1..Len(calls), ok \in BOOLEAN :
       \E sop \in calls[i].pending :
         LET left == calls[i].pending \ {sop}
             pc == IF calls[i].pc # "await"
                     THEN calls[i].pc
                     ELSE IF ~ok
                            THEN "threw"
                            ELSE IF left = {} THEN "done" ELSE "await"
             a == [Auth EXCEPT !.store = Settled(store, sop, ok)]
         IN /\ Becomes(IF calls[i].pc = "await" /\ pc = "done"
                         THEN Resumed(a, calls[i])
                         ELSE a)
            /\ calls' = [calls EXCEPT ![i].pending = left, ![i].pc = pc]
  /\ OverlapRest

NextOverlap ==
  \/ Invoke
  \/ Settle

SpecOverlap == InitLogin /\ [][NextOverlap]_vars

\* ------------------------------------------------------------------------
\* Properties
\* ------------------------------------------------------------------------
\* The claims' own reading of the stored data.
Present(key) == store[key] # NULL

\* The access token carries a readable exp claim ...
Decodable(token) == token \in {"h.exp1.s", "h.exp2.s"}

\* ... of this many milliseconds since the epoch.
ExpMs(token) == IF token = "h.exp1.s" THEN 1000 ELSE 2000

StoredTokenExpired ==
  Present(AUTH_TOKEN) /\ Decodable(store[AUTH_TOKEN]) /\ ExpMs(store[AUTH_TOKEN]) <= now

StoredTokenInFuture ==
  Present(AUTH_TOKEN) /\ Decodable(store[AUTH_TOKEN]) /\ ExpMs(store[AUTH_TOKEN]) > now

\* Every choice the environment can make during one call.
AnyEnv ==
  [http : HttpOutcomes \cup {NoHttp}, failed : SUBSET {AUTH_TOKEN, REFRESH_TOKEN},
   rem1 : RemoveOutcomes, rem2 : RemoveOutcomes]

\* The environment in which no store operation rejects, under HTTP outcome h.
Healthy(h) == Env(h, {}, RemoveAll, RemoveAll)

\* C1: isAuthenticated is true only if an access token is in the store.
C1_AuthenticatedOnlyWithToken == isAuthenticated => Present(AUTH_TOKEN)

\* C2: after initialize(), isAuthenticated and the returned boolean are true
\* exactly when an access token and cookies were stored before the call and
\* the token is unexpired or was refreshed successfully.
C2_InitializeIffTokenAndCookies ==
  [][last'.op = "initialize" =>
       LET refreshedOk == /\ StoredTokenExpired
                          /\ Present(REFRESH_TOKEN)
                          /\ last'.http.kind = "ok"
                          /\ ~last'.rejected
           expected == /\ Present(AUTH_TOKEN)
                       /\ Present(COOKIES)
                       /\ (StoredTokenInFuture \/ refreshedOk)
       IN /\ isAuthenticated' = expected
          /\ last'.ret = BoolStr(expected)]_vars

\* C3: on an empty store initialize() returns false, raises nothing, posts no
\* refresh, performs no logout, and leaves instanceType cloud, instanceUrl
\* the cloud URL, and apiPrefix, publicApiPrefix, cookies, baseUrl empty.
C3_InitializeOnEmptyStore ==
  store = EmptyStore =>
    \A env \in AnyEnv :
      LET o == initialize(Auth, now, env)
      IN /\ o.ret = "false"
         /\ ~o.threw
         /\ o.posts = 0
         /\ o.logouts = 0
         /\ o.a.instanceType = CLOUD
         /\ o.a.instanceUrl = CLOUD_INSTANCE_URL
         /\ o.a.apiPrefix = ""
         /\ o.a.publicApiPrefix = ""
         /\ o.a.cookies = ""
         /\ o.a.baseUrl = ""

C3_Witness ==
  /\ last.op = "initialize"
  /\ store = EmptyStore
  /\ last.ret = "false"
  /\ last.logouts = 0
  /\ last.posts = 0
  /\ instanceType = CLOUD
  /\ instanceUrl = CLOUD_INSTANCE_URL

\* C4: when the stored access token is decodable and expired and a refresh
\* token is stored, initialize() posts to the refresh endpoint exactly once,
\* whatever the request's outcome.
C4_ExactlyOneRefresh ==
  StoredTokenExpired /\ Present(REFRESH_TOKEN) =>
    \A env \in AnyEnv : initialize(Auth, now, env).posts = 1

C4_Witness ==
  /\ last.op = "initialize"
  /\ last.posts = 1
  /\ last.http.kind = "non2xx"

\* C5: when the stored access token's exp is in the future, initialize()
\* posts no refresh, performs no logout, leaves the store as it is, and
\* isAuthenticated is (access token present and cookies present).
C5_ValidTokenUntouched ==
  StoredTokenInFuture =>
    \A env \in AnyEnv :
      LET o == initialize(Auth, now, env)
      IN /\ o.posts = 0
         /\ o.logouts = 0
         /\ o.a.store = store
         /\ o.a.isAuthenticated = (Present(AUTH_TOKEN) /\ Present(COOKIES))
         /\ o.ret = BoolStr(Present(AUTH_TOKEN) /\ Present(COOKIES))

C5_Witness ==
  /\ last.op = "initialize"
  /\ StoredTokenInFuture
  /\ Present(COOKIES)
  /\ isAuthenticated
  /\ last.ret = "true"
  /\ last.posts = 0
  /\ last.logouts = 0


\* C6: from any state, a logout() that resolves followed at once by
\* initialize() gives isAuthenticated = false, initialize returning false,
\* apiPrefix, publicApiPrefix, cookies and baseUrl empty, and no refresh POST.
C6_LogoutThenInitialize ==
  LET lo == logout(Auth, RemoveAll)
  IN ~lo.threw =>
       \A env \in AnyEnv :
         LET o == initialize(lo.a, now, env)
         IN /\ o.ret = "false"
            /\ ~o.a.isAuthenticated
            /\ o.a.apiPrefix = ""
            /\ o.a.publicApiPrefix = ""
            /\ o.a.cookies = ""
            /\ o.a.baseUrl = ""
            /\ o.posts = 0

C6_Witness ==
  /\ last.op = "initialize"
  /\ last.prev = "logout"
  /\ last.ret = "false"
  /\ last.posts = 0
  /\ ~isAuthenticated
  /\ apiPrefix = ""
  /\ publicApiPrefix = ""
  /\ cookies = ""
  /\ baseUrl = ""

\* C7: logout() is idempotent: a second logout() right after one that
\* resolved raises nothing (the keys being absent is no failure) and leaves
\* the store and the session fields exactly as the first left them.
C7_LogoutIdempotent ==
  LET once == logout(Auth, RemoveAll)
      twice == logout(once.a, RemoveAll)
  IN ~once.threw => ~twice.threw /\ twice.a = once.a

C7_Witness ==
  /\ last.op = "logout"
  /\ last.prev = "logout"
  /\ ~last.threw
  /\ store = EmptyStore
  /\ ~isAuthenticated

\* C8: when the refresh answer is non-2xx or the request fails at the network
\* level, refreshAuthToken returns false without raising, and afterwards
\* isAuthenticated is false and no access or refresh token is stored, also
\* when the store removal done by logout() fails.
C8_FailedRefreshLogsOut ==
  [][last'.op = "refreshAuthToken" /\ last'.http.kind \in {"non2xx", "network"} =>
       /\ last'.ret = "false"
       /\ ~last'.threw
       /\ ~isAuthenticated'
       /\ store'[AUTH_TOKEN] = NULL
       /\ store'[REFRESH_TOKEN] = NULL]_vars

\* C9: when the refresh endpoint answers 2xx with a new token pair (and the
\* store accepts the writes), refreshAuthToken stores exactly that pair under
\* auth_token and refresh_token, returns true and performs no logout.
C9_RefreshStoresNewPair ==
  \A r \in RefreshTokens, h \in HttpOutcomes :
    h.kind = "ok" =>
      LET o == refreshAuthToken(Auth, r, Healthy(h))
      IN /\ o.a.store[AUTH_TOKEN] = h.access_token
         /\ o.a.store[REFRESH_TOKEN] = h.refresh_token
         /\ \A k \in StoreKeys \ {AUTH_TOKEN, REFRESH_TOKEN} :
              o.a.store[k] = store[k]
         /\ o.ret = "true"
         /\ ~o.threw
         /\ o.logouts = 0

\* an old pair was replaced by the server's new pair
C9_Witness ==
  /\ last.op = "refreshAuthToken"
  /\ last.http.kind = "ok"
  /\ last.ret = "true"
  /\ last.logouts = 0
  /\ store[AUTH_TOKEN] = last.http.access_token
  /\ store[REFRESH_TOKEN] = last.http.refresh_token

\* C10 as stated: after setApiPrefix(p) with the second argument omitted,
\* getPublicApiPrefix() returns p and public_api_prefix holds p; with a
\* second argument q given, getPublicApiPrefix() returns q.
C10_PublicPrefixAsStated ==
  [][last'.op = "setApiPrefix" /\ ~last'.threw =>
       IF last'.arg2 = UNDEFINED
         THEN /\ getPublicApiPrefix(Auth)' = last'.arg1
              /\ store'[PUBLIC_API_PREFIX] = last'.arg1
         ELSE getPublicApiPrefix(Auth)' = last'.arg2]_vars

\* C10 as amended: after setApiPrefix(p) with the second argument omitted or
\* empty, getPublicApiPrefix() returns p and public_api_prefix holds p; with
\* a non-empty second argument q, getPublicApiPrefix() returns q and
\* public_api_prefix holds q.
C10_PublicPrefixDefaults ==
  \A p \in Prefixes :
    /\ \A q \in {UNDEFINED, ""} :
         LET o == setApiPrefix(Auth, p, q, {})
         IN /\ ~o.threw
            /\ getPublicApiPrefix(o.a) = p
            /\ o.a.store[PUBLIC_API_PREFIX] = p
    /\ \A q \in Prefixes :
         LET o == setApiPrefix(Auth, p, q, {})
         IN /\ ~o.threw
            /\ getPublicApiPrefix(o.a) = q
            /\ o.a.store[PUBLIC_API_PREFIX] = q

C10_Witness ==
  /\ last.op = "setApiPrefix"
  /\ last.arg2 = UNDEFINED
  /\ ~last.threw
  /\ getPublicApiPrefix(Auth) = last.arg1
  /\ store[PUBLIC_API_PREFIX] = last.arg1
  /\ store[API_PREFIX] = last.arg1

\* C18 as stated: while the instance type is cloud, getApiPrefix() returns
\* the fixed public cloud endpoint, whatever prefix was stored before.
C18_CloudPrefixIsFixed ==
  [][last'.op = "getApiPrefix" /\ instanceType' = CLOUD =>
       last'.ret = CLOUD_INSTANCE_URL \o "/console/api"]_vars

\* C20 as stated: after a logout() that completed, none of the ten keys is
\* in the store and every field has its documented default: isAuthenticated
\* false, instanceType cloud, instanceUrl the cloud URL, the prefixes, the
\* cookies and the base URL empty.
C20_LogoutRestoresDefaults ==
  [][last'.op = "logout" /\ ~last'.threw =>
       /\ \A i \in 1..Len(LOGOUT_KEYS) : store'[LOGOUT_KEYS[i]] = NULL
       /\ isAuthenticated' = FALSE
       /\ instanceType' = CLOUD
       /\ instanceUrl' = CLOUD_INSTANCE_URL
       /\ apiPrefix' = ""
       /\ publicApiPrefix' = ""
       /\ cookies' = ""
       /\ baseUrl' = ""]_vars

\* The session holds what the redirect url carries: its tokens in the store,
\* the instance type by its host name, its origin as base URL.
HoldsRedirect(url) ==
  LET p == ParseURL(url)
  IN /\ store[AUTH_TOKEN] = p.access_token
     /\ store[REFRESH_TOKEN] = p.refresh_token
     /\ instanceType = (IF p.hostname = "cloud.dify.ai" THEN CLOUD ELSE CUSTOM)
     /\ baseUrl = p.origin

\* C11 as stated: for every redirect to /apps that carries an access token
\* and a refresh token, once the navigation handler called for it has
\* finished (no other call of the handler being in flight, and the store
\* having accepted every write), the store holds the two tokens, the
\* instance type is cloud exactly when the host is cloud.dify.ai, and the
\* base URL is the redirect's origin.
C11_RedirectStored ==
  [][\A url \in {LANDING_CLOUD, LANDING_SELF} :
       /\ ~observed'.rejected
       /\ \/ /\ observed'.events = observed.events + 1
             /\ observed'.url = url
             /\ navs = <<>> /\ navs' = <<>>
          \/ /\ Len(navs) = 1 /\ navs' = <<>>
             /\ navs[1].url = url
       => HoldsRedirect(url)']_vars

\* C13 as stated: when the apps request of an attempt failed (non-2xx, or
\* fetch threw), the browser stays open and the session is not marked
\* authenticated by it, and a later navigation to /apps starts a new
\* extraction.
C13_RetryAfterFailure ==
  [][/\ (observed'.failed = observed.failed + 1
         /\ observed'.failedAt = "fetch") =>
           /\ showWebView' = showWebView
           /\ isAuthenticated' = isAuthenticated
     /\ (/\ observed.failedAt = "fetch"
         /\ navs = <<>>
         /\ observed'.events = observed.events + 1
         /\ ~ParseURL(observed'.url).threw
         /\ ParseURL(observed'.url).pathname = "/apps") =>
           /\ observed'.outcome = "started"
           /\ observed'.extracting = observed.extracting + 1]_vars

\* C14 as stated: a navigation URL that cannot be parsed but contains /apps,
\* reported while no redirect has been processed, is recognised by the
\* substring check and the login goes on to the apps request (to complete
\* on a 2xx answer) instead of ending in the failure alert.
C14_FallbackCompletes ==
  [][(/\ observed'.events = observed.events + 1
      /\ ParseURL(observed'.url).threw
      /\ IncludesApps(observed'.url)
      /\ ~loginProcessed) =>
        /\ observed'.outcome = "started"
        /\ observed'.failed = observed.failed]_vars

\* C12: however many navigation events to /apps are reported while the
\* browser is open for one login, a second one arriving while the first
\* call of the handler is suspended included, the extraction is entered at
\* most once and at most one apps request is sent; no second call of the
\* handler is ever in flight, and an attempt that reaches the apps request
\* has sent exactly one: every attempt does whose URL was parsed and whose
\* store writes were accepted.
C12_OneExtractionOneGet ==
  /\ Len(navs) <= 1
  /\ observed.completed = 0 =>
       /\ observed.extracting <= 1
       /\ observed.gets <= 1
       /\ (loginProcessed <=> observed.extracting = 1)
       /\ \A i \in 1..Len(navs) :
            navs[i].pc \in {"fetch", "setIsAuthenticated", "setApps"} =>
              observed.gets = 1
       /\ (/\ observed.extracting = 1
           /\ navs = <<>>
           /\ ~observed.rejected
           /\ observed.failedAt # "parse") => observed.gets = 1

\* a second landing event was reported and ignored while the first call was
\* suspended at its apps request
C12_Witness ==
  /\ observed.completed = 0
  /\ observed.events >= 2
  /\ observed.outcome = "ignored"
  /\ ParseURL(observed.url).pathname = "/apps"
  /\ Len(navs) = 1
  /\ navs[1].pc = "fetch"
  /\ observed.extracting = 1
  /\ observed.gets = 1

\* C15 as stated: after the page's message {type: 'API_PREFIX', apiPrefix,
\* publicApiPrefix} was handled, getApiPrefix() returns apiPrefix and
\* getPublicApiPrefix() returns publicApiPrefix.
C15_ApiPrefixMessageApplied ==
  [][last'.op = "handleWebViewMessage" /\ last'.arg1 \in Prefixes =>
       /\ getApiPrefix(Auth)'.ret = last'.arg1
       /\ getPublicApiPrefix(Auth)' = last'.arg2]_vars

\* The domain d names its scheme.
HasScheme(d) == d = "https://dify.example.com"

\* d with https:// put in front exactly when it names no scheme.
Normalized(d) == IF HasScheme(d) THEN d ELSE "https://" \o d

\* C19 as stated: after a custom login was started with the domain d, the
\* normalized d is the instance's base URL, in the field and in the store,
\* and the browser is open on the sign-in URL of that instance.
C19_CustomLoginUsesDomain ==
  [][last'.op = "handleCustomLogin" /\ last'.arg1 \in Domains
       /\ ~last'.rejected =>
         /\ baseUrl' = Normalized(last'.arg1)
         /\ store'[BASE_URL] = Normalized(last'.arg1)
         /\ showWebView'
         /\ webViewUrl' = Normalized(last'.arg1) \o "/signin"]_vars

\* The navigation root shows the surface for the authentication state b.
Shown(b) ==
  /\ mounted
  /\ ~navigator.isLoading
  /\ navigator.isAuthenticated = b

\* A check of the navigator completes in this step, the navigator mounted.
CheckCompletes == mounted /\ Len(checks') < Len(checks)

\* C16: while the navigator is mounted, the result of every completed check
\* puts the session's authentication state of that moment into the root:
\* after a logout() that completed the next completed check shows the login
\* surface, after the login flow marked the session authenticated it shows
\* the authenticated surface; a state the session stays in is eventually
\* shown, and a root that agrees with the session keeps agreeing until the
\* session's state changes.
C16_RootFollowsSession ==
  /\ [][CheckCompletes =>
          /\ navigator'.isAuthenticated = isAuthenticated'
          /\ (last.op = "logout" /\ ~last.threw =>
                ~navigator'.isAuthenticated)
          /\ (last.op = "setIsAuthenticated" /\ ~last.threw =>
                navigator'.isAuthenticated)]_vars
  /\ [][Shown(isAuthenticated) /\ isAuthenticated' = isAuthenticated
          /\ mounted' => Shown(isAuthenticated)']_vars
  /\ \A b \in BOOLEAN :
       (mounted /\ isAuthenticated = b)
         ~> (Shown(b) \/ isAuthenticated # b \/ ~mounted)

\* after the authenticated surface had been shown, a logout completed and a
\* later check switched the root to the login surface
C16_Witness ==
  /\ polled.shownAuthenticated
  /\ last.op = "logout"
  /\ ~last.threw
  /\ Shown(FALSE)
  /\ ~isAuthenticated
  /\ checks = <<>>

C21_WriteFailurePropagates ==
  /\ \A t \in Tokens, r \in RefreshTokens,
        failed \in (SUBSET {AUTH_TOKEN, REFRESH_TOKEN}) \ {{}} :
       LET o == setAuthTokens(Auth, t, r, failed)
       IN /\ o.threw
          /\ o.a.isAuthenticated = isAuthenticated
          /\ o.a.apiPrefix = apiPrefix
          /\ o.a.publicApiPrefix = publicApiPrefix
  /\ \A p \in Prefixes, q \in Prefixes \cup {"", UNDEFINED},
        failed \in (SUBSET {API_PREFIX, PUBLIC_API_PREFIX}) \ {{}} :
       LET o == setApiPrefix(Auth, p, q, failed)
       IN /\ o.threw
          /\ o.a.isAuthenticated = isAuthenticated
          /\ o.a.apiPrefix = apiPrefix
          /\ o.a.publicApiPrefix = publicApiPrefix

\* a setAuthTokens threw after one of its writes had landed, and the session
\* is still not authenticated
C21_Witness ==
  /\ last.op = "setAuthTokens"
  /\ last.threw
  /\ last.rejected
  /\ ~isAuthenticated
  /\ Present(AUTH_TOKEN)
  /\ ~Present(REFRESH_TOKEN)

\* C22 as stated: when initialize() finds a stored access token that cannot
\* be decoded, or a decodable expired one whose refresh request fails, it
\* returns false with isAuthenticated false and with no access token, no
\* refresh token and no cookies left in the store.
C22_IntegrityErrorsLogOut ==
  [][(/\ last'.op = "initialize"
      /\ Present(AUTH_TOKEN)
      /\ \/ ~Decodable(store[AUTH_TOKEN])
         \/ /\ StoredTokenExpired
            /\ last'.posts = 1
            /\ last'.http.kind # "ok") =>
        /\ last'.ret = "false"
        /\ ~last'.threw
        /\ isAuthenticated' = FALSE
        /\ store'[AUTH_TOKEN] = NULL
        /\ store'[REFRESH_TOKEN] = NULL
        /\ store'[COOKIES] = NULL]_vars

\* C23: when the stored access token is decodable and expired and no refresh
\* token is stored, initialize() posts no refresh request, calls logout()
\* and returns false, whatever the store does.
C23_ExpiredWithoutRefreshToken ==
  StoredTokenExpired /\ ~Present(REFRESH_TOKEN) =>
    \A env \in AnyEnv :
      LET o == initialize(Auth, now, env)
      IN /\ o.posts = 0
         /\ o.logouts >= 1
         /\ o.ret = "false"
         /\ ~o.threw

\* initialize() found an expired token without refresh token and logged out
C23_Witness ==
  /\ last.op = "initialize"
  /\ Decodable(last.arg1)
  /\ ExpMs(last.arg1) <= now
  /\ last.arg2 = NULL
  /\ last.posts = 0
  /\ last.logouts = 1
  /\ last.ret = "false"
  /\ ~isAuthenticated
  /\ ~Present(AUTH_TOKEN)

\* C30 as stated: the refresh request initialize() triggers goes to the
\* prefix getApiPrefix() would return: the stored api_prefix or, when none
\* is stored, the cloud default prefix.
C30_RefreshUsesApiPrefix ==
  [][last'.op = "initialize" /\ last'.posts = 1 =>
       last'.url = (IF Present(API_PREFIX)
                      THEN store[API_PREFIX]
                      ELSE CLOUD_INSTANCE_URL \o "/console/api")
                   \o "/oauth/token/refresh"]_vars

\* C27 as stated: the login flow marks the session authenticated only for a
\* redirect that carried an access_token, with that token in the store; a
\* landing navigation without access_token never ends authenticated.
C27_AuthenticatedOnlyWithToken ==
  [][\A i \in 1..Len(navs) :
       (/\ navs[i].pc = "fetch"
        /\ Len(navs') = Len(navs)
        /\ navs'[i].pc = "setIsAuthenticated")
       => /\ isAuthenticated'
          /\ Truthy(ParseURL(navs[i].url).access_token)
          /\ store[AUTH_TOKEN] = ParseURL(navs[i].url).access_token]_vars

\* C28 as stated: when the apps request of the first login attempt is
\* refused or throws, the store is as before the extraction, which found it
\* without auth_token, refresh_token and base_url: none of the three is in
\* the store afterwards.  (instance_type is left aside: the login button
\* wrote it before the browser opened.)
C28_FailedLoginLeavesStore ==
  [][(/\ Len(navs) = 1
      /\ navs[1].pc = "fetch"
      /\ Truthy(ParseURL(navs[1].url).access_token)
      /\ navs' = <<>>
      /\ observed'.failed = observed.failed + 1
      /\ observed'.failedAt = "fetch"
      /\ observed.completed = 0)
     => /\ store'[AUTH_TOKEN] = NULL
        /\ store'[REFRESH_TOKEN] = NULL
        /\ store'[BASE_URL] = NULL]_vars

\* The step ends the request at position i: it leaves the queue, and at
\* most one new request is queued behind the others.
Resolved(i) ==
  \/ requests' = RemoveAt(requests, i)
  \/ /\ Len(requests') = Len(requests)
     /\ SubSeq(requests', 1, Len(requests) - 1) = RemoveAt(requests, i)
     /\ requests'[Len(requests)].answer = "none"

C25_AppsIsFlatList ==
  (/\ observed.completed >= 1
   /\ observed.failed = 0
   /\ AppsIdle
   /\ Truthy(store[AUTH_TOKEN])
   /\ Truthy(store[APPS]))
  => \E v \in AppsValues : ~v.wrapped /\ store[APPS] = JSONStringify(v)

\* Every call made has resumed behind its await, none from a rejection.
AllDone ==
  \A i \in 1..Len(calls) : calls[i].pc = "done" /\ calls[i].pending = {}

\* C24: when the callers serialize their calls, each starting after the one
\* before it has ended, isAuthenticated agrees with the store once the calls
\* are done; the witness is the final state that overlapping logout() and
\* setAuthTokens() reach, where they disagree.
C24_SerializedCallsAgree ==
  (AllDone /\ \A i \in 1..Len(calls) : calls[i].alone)
  => (isAuthenticated <=> Present(AUTH_TOKEN))

C24_Witness ==
  /\ Len(calls) = 2
  /\ AllDone
  /\ {calls[1].op, calls[2].op} = {"logout", "setAuthTokens"}
  /\ ~calls[1].alone
  /\ isAuthenticated
  /\ ~Present(AUTH_TOKEN)

\* C29 as stated: when two overlapping setApiPrefix calls with different
\* prefixes are both done, apiPrefix and publicApiPrefix are the values in
\* the store under api_prefix and public_api_prefix.
C29_OverlappingPrefixesAgree ==
  (/\ Len(calls) = 2
   /\ AllDone
   /\ calls[1].op = "setApiPrefix"
   /\ calls[2].op = "setApiPrefix"
   /\ calls[1].arg1 # calls[2].arg1
   /\ ~calls[1].alone)
  => /\ apiPrefix = store[API_PREFIX]
     /\ publicApiPrefix = store[PUBLIC_API_PREFIX]

====
